---- MODULE Spec2Model ----
(***************************************************************************)
(* Molecule<T> of stdlib/lpp_stdlib.hpp: a graph with typed bonds, its     *)
(* mutators (addAtom, addBond, clear), its queries (neighbors, bfs, dfs,   *)
(* hasPath, isConnected, hasCycle) and the algorithms behind them.         *)
(* T is instantiated with int, so T() is 0.                                *)
(***************************************************************************)
EXTENDS Integers, Sequences, FiniteSets, TLC

\* Bounds of the model: node values are 0..MaxNode, at most MaxBonds bonds.
MaxNode == 2
MaxBonds == 2

\* The value-initialised node T() that hasCycle passes as the root's parent.
DefaultT == 0

Nodes == 0..MaxNode

\* enum class BondType
BondType == {"SINGLE", "DOUBLE", "ARROW", "BIDIRECTIONAL"}

VARIABLES
    atoms,      \* std::unordered_set<T> atoms
    bonds,      \* std::vector<MoleculeBond<T>> bonds
    adjacency,  \* std::unordered_map<T, std::vector<T>> adjacency
    ret,        \* the last call: its name, its arguments and the value returned
    graph       \* the std::unordered_map<T, std::vector<T>> a caller passes to
                \* graphHasPath, graphShortestPath, graphCountComponents, graphIsBipartite

vars == <<atoms, bonds, adjacency, ret, graph>>

Range(s) == {s[i] : i \in 1..Len(s)}

\* An unordered_map with no key.
EmptyMap == [x \in {} |-> <<>>]

\* m[k] = v on an unordered_map: the key is created when absent.
MapPut(m, k, v) == [x \in (DOMAIN m) \cup {k} |-> IF x = k THEN v ELSE m[x]]

\* The iteration orders an unordered container holding the elements S can have.
Orders(S) ==
    {s \in [1..Cardinality(S) -> S] :
        \A i, j \in 1..Cardinality(S) : i # j => s[i] # s[j]}

RECURSIVE SortedSeq(_)
\* The elements of the set of numbers S in ascending order.
SortedSeq(S) ==
    IF S = {}
    THEN <<>>
    ELSE LET x == CHOOSE y \in S : \A z \in S : y <= z
         IN  <<x>> \o SortedSeq(S \ {x})

MoleculeBond(f, t, bt) == [from |-> f, to |-> t, type |-> bt]

\* The Molecule object as one value.
Molecule == [atoms |-> atoms, bonds |-> bonds, adjacency |-> adjacency]

-----------------------------------------------------------------------------
(* Mutators *)

\* addAtom that forgets the adjacency entry of the new atom
addAtom_noEntry(g, atom) ==
    IF atom \in g.atoms THEN g ELSE [g EXCEPT !.atoms = @ \cup {atom}]

addAtom(g, atom) ==
    IF atom \in g.atoms
    THEN g
    ELSE [g EXCEPT
            !.atoms = @ \cup {atom},
            !.adjacency = IF atom \notin DOMAIN @ THEN MapPut(@, atom, <<>>) ELSE @]

\* the new element put at the front of adjacency[k]
push_front(adj, k, v) ==
    IF k \in DOMAIN adj THEN [adj EXCEPT ![k] = <<v>> \o @] ELSE MapPut(adj, k, <<v>>)

\* adjacency[k] = {v}: the list is replaced, not extended
push_back_replaces(adj, k, v) == MapPut(adj, k, <<v>>)

\* adjacency[k].push_back(v): operator[] creates the entry when absent
push_back(adj, k, v) ==
    IF k \in DOMAIN adj THEN [adj EXCEPT ![k] = Append(@, v)] ELSE MapPut(adj, k, <<v>>)

\* addBond in which a DOUBLE bond adds no reverse entry
addBond_doubleOneWay(g, from, to, type) ==
    LET g2 == addAtom(addAtom(g, from), to)
    IN  IF \E i \in 1..Len(g2.bonds) : g2.bonds[i] = MoleculeBond(from, to, type)
        THEN g2
        ELSE LET g3 == [g2 EXCEPT !.bonds = Append(@, MoleculeBond(from, to, type)),
                                  !.adjacency = push_back(@, from, to)]
             IN  IF type = "SINGLE" \/ type = "BIDIRECTIONAL"
                 THEN [g3 EXCEPT !.adjacency = push_back(@, to, from)]
                 ELSE g3

\* addBond in which an ARROW bond adds a reverse entry as well
addBond_arrowBothWays(g, from, to, type) ==
    LET g2 == addAtom(addAtom(g, from), to)
    IN  IF \E i \in 1..Len(g2.bonds) : g2.bonds[i] = MoleculeBond(from, to, type)
        THEN g2
        ELSE [g2 EXCEPT !.bonds = Append(@, MoleculeBond(from, to, type)),
                        !.adjacency = push_back(push_back(@, from, to), to, from)]

\* addBond without the scan for a duplicate bond
addBond_noDupCheck(g, from, to, type) ==
    LET g2 == addAtom(addAtom(g, from), to)
        g3 == [g2 EXCEPT !.bonds = Append(@, MoleculeBond(from, to, type)),
                         !.adjacency = push_back(@, from, to)]
    IN  IF type # "ARROW"
        THEN [g3 EXCEPT !.adjacency = push_back(@, to, from)]
        ELSE g3

addBond(g, from, to, type) ==
    LET g2 == addAtom(addAtom(g, from), to)
    IN  IF \E i \in 1..Len(g2.bonds) :
              /\ g2.bonds[i].from = from
              /\ g2.bonds[i].to = to
              /\ g2.bonds[i].type = type
        THEN g2
        ELSE LET g3 == [g2 EXCEPT !.bonds = Append(@, MoleculeBond(from, to, type)),
                                  !.adjacency = push_back(@, from, to)]
             IN  IF type = "SINGLE" \/ type = "BIDIRECTIONAL"
                 THEN [g3 EXCEPT !.adjacency = push_back(@, to, from)]
                 ELSE IF type = "DOUBLE"
                      THEN [g3 EXCEPT !.adjacency = push_back(@, to, from)]
                      ELSE g3

\* clear that leaves the adjacency map as it is
clear_keepsAdjacency(g) == [g EXCEPT !.atoms = {}, !.bonds = <<>>]

clear(g) == [atoms |-> {}, bonds |-> <<>>, adjacency |-> EmptyMap]

-----------------------------------------------------------------------------
(* Simple queries *)

neighbors(g, atom) ==
    IF atom \in DOMAIN g.adjacency THEN g.adjacency[atom] ELSE <<>>

hasAtom(g, atom) == atom \in g.atoms

\* hasBond that does not compare the bond type
hasBond_anyType(g, from, to, type) ==
    \E i \in 1..Len(g.bonds) : g.bonds[i].from = from /\ g.bonds[i].to = to

hasBond(g, from, to, type) ==
    \E i \in 1..Len(g.bonds) :
        /\ g.bonds[i].from = from
        /\ g.bonds[i].to = to
        /\ g.bonds[i].type = type

\* getAtoms() returns const std::unordered_set<T>&: a reference to the member
\* atoms, not a copy of it.
getAtoms(g) == [ref |-> "atoms"]

\* getBonds() returns const std::vector<MoleculeBond<T>>&: a reference to the
\* member bonds.
getBonds(g) == [ref |-> "bonds"]

atomCount(g) == Cardinality(g.atoms)

bondCount(g) == Len(g.bonds)

empty(g) == g.atoms = {} /\ g.bonds = <<>>

-----------------------------------------------------------------------------
(* Traversals *)

RECURSIVE bfs_for(_, _, _)
\* bfs's loop over neighs: an unvisited neighbor is marked and enqueued
bfs_for(neighs, visited, queue) ==
    IF neighs = <<>>
    THEN [visited |-> visited, queue |-> queue]
    ELSE LET neighbor == Head(neighs)
         IN  IF neighbor \notin visited
             THEN bfs_for(Tail(neighs), visited \cup {neighbor}, Append(queue, neighbor))
             ELSE bfs_for(Tail(neighs), visited, queue)

RECURSIVE bfs_while(_, _, _, _)
\* bfs's loop: while (!queue.empty())
bfs_while(g, queue, visited, result) ==
    IF queue = <<>>
    THEN result
    ELSE LET current == Head(queue)
             st == bfs_for(neighbors(g, current), visited, Tail(queue))
         IN  bfs_while(g, st.queue, st.visited, Append(result, current))

\* bfs without the check that start is an atom
bfs_noAbsentCheck(g, start) == bfs_while(g, <<start>>, {start}, <<>>)

\* bfs that returns the start atom and its direct neighbours only
bfs_oneLevel(g, start) ==
    IF ~hasAtom(g, start)
    THEN <<>>
    ELSE <<start>> \o bfs_for(neighbors(g, start), {start}, <<>>).queue

bfs(g, start) ==
    IF ~hasAtom(g, start)
    THEN <<>>
    ELSE bfs_while(g, <<start>>, {start}, <<>>)

RECURSIVE dfsHelper(_, _, _, _)
RECURSIVE dfs_for(_, _, _, _)
\* dfsHelper's loop over neighs: recurse into an unvisited neighbor
dfs_for(g, neighs, visited, result) ==
    IF neighs = <<>>
    THEN [visited |-> visited, result |-> result]
    ELSE LET neighbor == Head(neighs)
             st == IF neighbor \notin visited
                   THEN dfsHelper(g, neighbor, visited, result)
                   ELSE [visited |-> visited, result |-> result]
         IN  dfs_for(g, Tail(neighs), st.visited, st.result)

dfsHelper(g, node, visited, result) ==
    dfs_for(g, neighbors(g, node), visited \cup {node}, Append(result, node))

dfs(g, start) ==
    IF ~hasAtom(g, start)
    THEN <<>>
    ELSE dfsHelper(g, start, {}, <<>>).result

RECURSIVE hasPath_for(_, _, _)
\* hasPath's loop over neighs
hasPath_for(neighs, visited, queue) ==
    IF neighs = <<>>
    THEN [visited |-> visited, queue |-> queue]
    ELSE LET neighbor == Head(neighs)
         IN  IF neighbor \notin visited
             THEN hasPath_for(Tail(neighs), visited \cup {neighbor}, Append(queue, neighbor))
             ELSE hasPath_for(Tail(neighs), visited, queue)

RECURSIVE hasPath_while(_, _, _, _)
\* hasPath's loop: stops at the first dequeued node equal to `to`
hasPath_while(g, to, queue, visited) ==
    IF queue = <<>>
    THEN FALSE
    ELSE LET current == Head(queue)
         IN  IF current = to
             THEN TRUE
             ELSE LET st == hasPath_for(neighbors(g, current), visited, Tail(queue))
                  IN  hasPath_while(g, to, st.queue, st.visited)

\* hasPath that looks at the direct neighbours of `from` only
hasPath_directOnly(g, from, to) ==
    IF ~hasAtom(g, from) \/ ~hasAtom(g, to)
    THEN FALSE
    ELSE from = to \/ to \in Range(neighbors(g, from))

hasPath(g, from, to) ==
    IF ~hasAtom(g, from) \/ ~hasAtom(g, to)
    THEN FALSE
    ELSE IF from = to
         THEN TRUE
         ELSE hasPath_while(g, to, <<from>>, {from})

-----------------------------------------------------------------------------
(* Structural analysis.  `order` is the order in which the unordered_set     *)
(* atoms is iterated; the standard leaves it unspecified.                   *)

\* isConnected that counts the start atom and its direct neighbours only
isConnected_oneLevel(g, order) ==
    IF g.atoms = {}
    THEN TRUE
    ELSE Len(bfs_oneLevel(g, order[1])) = Cardinality(g.atoms)

isConnected(g, order) ==
    IF g.atoms = {}
    THEN TRUE
    ELSE LET start == order[1]
             reachable == bfs(g, start)
         IN  Len(reachable) = Cardinality(g.atoms)

RECURSIVE hasCycleHelper(_, _, _, _, _)
RECURSIVE hasCycleHelper_for(_, _, _, _, _)
\* hasCycleHelper's loop over neighs
hasCycleHelper_for(g, node, neighs, visited, parent) ==
    IF neighs = <<>>
    THEN [found |-> FALSE, visited |-> visited, parent |-> parent]
    ELSE LET neighbor == Head(neighs)
         IN  IF neighbor \notin visited
             THEN LET r == hasCycleHelper(g, neighbor, visited, parent, node)
                  IN  IF r.found
                      THEN r
                      ELSE hasCycleHelper_for(g, node, Tail(neighs), r.visited, r.parent)
             ELSE IF neighbor # parent[node]
                  THEN [found |-> TRUE, visited |-> visited, parent |-> parent]
                  ELSE hasCycleHelper_for(g, node, Tail(neighs), visited, parent)

hasCycleHelper(g, node, visited, parent, par) ==
    hasCycleHelper_for(g, node, neighbors(g, node),
                       visited \cup {node}, MapPut(parent, node, par))

RECURSIVE hasCycle_for(_, _, _, _)
\* hasCycle's loop over atoms, in iteration order
hasCycle_for(g, order, visited, parent) ==
    IF order = <<>>
    THEN FALSE
    ELSE LET atom == Head(order)
         IN  IF atom \notin visited
             THEN LET r == hasCycleHelper(g, atom, visited, parent, DefaultT)
                  IN  IF r.found
                      THEN TRUE
                      ELSE hasCycle_for(g, Tail(order), r.visited, r.parent)
             ELSE hasCycle_for(g, Tail(order), visited, parent)

\* hasCycle that searches the component of the first atom only
hasCycle_firstRootOnly(g, order) ==
    IF order = <<>>
    THEN FALSE
    ELSE hasCycleHelper(g, Head(order), {}, EmptyMap, DefaultT).found

hasCycle(g, order) == hasCycle_for(g, order, {}, EmptyMap)

-----------------------------------------------------------------------------
(* Graph utilities on a bare unordered_map<T, vector<T>>.  `order` is the    *)
(* order in which the keys of the map are iterated.                         *)

RECURSIVE graphHasPath_for(_, _, _, _)
\* graphHasPath's loop over it->second: returns at the first neighbor equal to end
graphHasPath_for(neighs, end, visited, queue) ==
    IF neighs = <<>>
    THEN [found |-> FALSE, visited |-> visited, queue |-> queue]
    ELSE LET neighbor == Head(neighs)
         IN  IF neighbor = end
             THEN [found |-> TRUE, visited |-> visited, queue |-> queue]
             ELSE IF neighbor \notin visited
                  THEN graphHasPath_for(Tail(neighs), end,
                                        visited \cup {neighbor}, Append(queue, neighbor))
                  ELSE graphHasPath_for(Tail(neighs), end, visited, queue)

RECURSIVE graphHasPath_while_onDequeue(_, _, _, _)
\* graphHasPath's loop finding end only when it is dequeued and is a key
graphHasPath_while_onDequeue(m, end, queue, visited) ==
    IF queue = <<>>
    THEN FALSE
    ELSE LET current == Head(queue)
         IN  IF current \notin DOMAIN m
             THEN graphHasPath_while_onDequeue(m, end, Tail(queue), visited)
             ELSE IF current = end
                  THEN TRUE
                  ELSE LET st == hasPath_for(m[current], visited, Tail(queue))
                       IN  graphHasPath_while_onDequeue(m, end, st.queue, st.visited)

RECURSIVE graphHasPath_while(_, _, _, _)
\* graphHasPath's loop: while (!queue.empty())
graphHasPath_while(m, end, queue, visited) ==
    IF queue = <<>>
    THEN FALSE
    ELSE LET current == Head(queue)
         IN  IF current \in DOMAIN m
             THEN LET st == graphHasPath_for(m[current], end, visited, Tail(queue))
                  IN  IF st.found
                      THEN TRUE
                      ELSE graphHasPath_while(m, end, st.queue, st.visited)
             ELSE graphHasPath_while(m, end, Tail(queue), visited)

\* graphHasPath that compares start and end before it looks start up
graphHasPath_equalFirst(m, start, end) ==
    IF start = end
    THEN TRUE
    ELSE IF start \notin DOMAIN m
         THEN FALSE
         ELSE graphHasPath_while(m, end, <<start>>, {start})

graphHasPath(m, start, end) ==
    IF start \notin DOMAIN m
    THEN FALSE
    ELSE IF start = end
         THEN TRUE
         ELSE graphHasPath_while(m, end, <<start>>, {start})

RECURSIVE graphShortestPath_walk(_, _, _, _)
\* the reconstruction: while (node != start) { path.push_back(node); node = parent[node]; }
graphShortestPath_walk(parent, start, node, path) ==
    IF node # start
    THEN graphShortestPath_walk(parent, start, parent[node], Append(path, node))
    ELSE path

\* the reversal left out
reverse_omitted(path) == path

\* std::reverse(path.begin(), path.end())
reverse(path) == [i \in 1..Len(path) |-> path[Len(path) + 1 - i]]

RECURSIVE graphShortestPath_for(_, _, _, _, _)
\* graphShortestPath's loop over it->second
graphShortestPath_for(neighs, current, visited, parent, queue) ==
    IF neighs = <<>>
    THEN [visited |-> visited, parent |-> parent, queue |-> queue]
    ELSE LET neighbor == Head(neighs)
         IN  IF neighbor \notin visited
             THEN graphShortestPath_for(Tail(neighs), current, visited \cup {neighbor},
                                        MapPut(parent, neighbor, current),
                                        Append(queue, neighbor))
             ELSE graphShortestPath_for(Tail(neighs), current, visited, parent, queue)

RECURSIVE graphShortestPath_while(_, _, _, _, _, _)
graphShortestPath_while(m, start, end, queue, visited, parent) ==
    IF queue = <<>>
    THEN <<>>
    ELSE LET current == Head(queue)
         IN  IF current = end
             THEN reverse(Append(graphShortestPath_walk(parent, start, end, <<>>), start))
             ELSE IF current \in DOMAIN m
                  THEN LET st == graphShortestPath_for(m[current], current, visited,
                                                       parent, Tail(queue))
                       IN  graphShortestPath_while(m, start, end,
                                                   st.queue, st.visited, st.parent)
                  ELSE graphShortestPath_while(m, start, end, Tail(queue), visited, parent)

\* graphShortestPath without the check that start is a key
graphShortestPath_noAbsentCheck(m, start, end) ==
    graphShortestPath_while(m, start, end, <<start>>, {start},
                            MapPut(EmptyMap, start, start))

graphShortestPath(m, start, end) ==
    IF start \notin DOMAIN m
    THEN <<>>
    ELSE graphShortestPath_while(m, start, end, <<start>>, {start},
                                 MapPut(EmptyMap, start, start))

RECURSIVE graphCountComponents_bfsFor(_, _, _)
\* graphCountComponents's loop over it->second
graphCountComponents_bfsFor(neighs, visited, queue) ==
    IF neighs = <<>>
    THEN [visited |-> visited, queue |-> queue]
    ELSE LET neighbor == Head(neighs)
         IN  IF neighbor \notin visited
             THEN graphCountComponents_bfsFor(Tail(neighs), visited \cup {neighbor},
                                              Append(queue, neighbor))
             ELSE graphCountComponents_bfsFor(Tail(neighs), visited, queue)

\* the marking that stops at the direct neighbours of the first vertex
graphCountComponents_while_direct(m, queue, visited) ==
    IF queue = <<>> \/ Head(queue) \notin DOMAIN m
    THEN visited
    ELSE graphCountComponents_bfsFor(m[Head(queue)], visited, <<>>).visited

RECURSIVE graphCountComponents_while(_, _, _)
\* the BFS that marks what is reachable from a new component's first vertex
graphCountComponents_while(m, queue, visited) ==
    IF queue = <<>>
    THEN visited
    ELSE LET current == Head(queue)
         IN  IF current \in DOMAIN m
             THEN LET st == graphCountComponents_bfsFor(m[current], visited, Tail(queue))
                  IN  graphCountComponents_while(m, st.queue, st.visited)
             ELSE graphCountComponents_while(m, Tail(queue), visited)

RECURSIVE graphCountComponents_for(_, _, _, _)
\* graphCountComponents's loop over the keys of the map
graphCountComponents_for(m, order, visited, count) ==
    IF order = <<>>
    THEN count
    ELSE LET vertex == Head(order)
         IN  IF vertex \notin visited
             THEN graphCountComponents_for(m, Tail(order),
                      graphCountComponents_while(m, <<vertex>>, visited \cup {vertex}),
                      count + 1)
             ELSE graphCountComponents_for(m, Tail(order), visited, count)

\* graphCountComponents that also starts from the neighbours that are no key
graphCountComponents_allNodes(m, order) ==
    graphCountComponents_for(m,
        SortedSeq((UNION {Range(m[u]) : u \in DOMAIN m}) \ DOMAIN m) \o order, {}, 0)

graphCountComponents(m, order) == graphCountComponents_for(m, order, {}, 0)

RECURSIVE graphIsBipartite_bfsFor(_, _, _, _)
\* graphIsBipartite's loop over it->second
graphIsBipartite_bfsFor(neighs, current, color, queue) ==
    IF neighs = <<>>
    THEN [ok |-> TRUE, color |-> color, queue |-> queue]
    ELSE LET neighbor == Head(neighs)
         IN  IF neighbor \notin DOMAIN color
             THEN graphIsBipartite_bfsFor(Tail(neighs), current,
                      MapPut(color, neighbor, 1 - color[current]),
                      Append(queue, neighbor))
             ELSE IF color[neighbor] = color[current]
                  THEN [ok |-> FALSE, color |-> color, queue |-> queue]
                  ELSE graphIsBipartite_bfsFor(Tail(neighs), current, color, queue)

RECURSIVE graphIsBipartite_while(_, _, _)
graphIsBipartite_while(m, queue, color) ==
    IF queue = <<>>
    THEN [ok |-> TRUE, color |-> color]
    ELSE LET current == Head(queue)
         IN  IF current \in DOMAIN m
             THEN LET st == graphIsBipartite_bfsFor(m[current], current, color, Tail(queue))
                  IN  IF st.ok
                      THEN graphIsBipartite_while(m, st.queue, st.color)
                      ELSE [ok |-> FALSE, color |-> st.color]
             ELSE graphIsBipartite_while(m, Tail(queue), color)

RECURSIVE graphIsBipartite_for(_, _, _)
\* graphIsBipartite's loop over the keys of the map
graphIsBipartite_for(m, order, color) ==
    IF order = <<>>
    THEN TRUE
    ELSE LET vertex == Head(order)
         IN  IF vertex \notin DOMAIN color
             THEN LET r == graphIsBipartite_while(m, <<vertex>>, MapPut(color, vertex, 0))
                  IN  IF r.ok
                      THEN graphIsBipartite_for(m, Tail(order), r.color)
                      ELSE FALSE
             ELSE graphIsBipartite_for(m, Tail(order), color)

\* graphIsBipartite that colours the component of the first key only
graphIsBipartite_firstOnly(m, order) ==
    IF order = <<>>
    THEN TRUE
    ELSE graphIsBipartite_while(m, <<Head(order)>>, MapPut(EmptyMap, Head(order), 0)).ok

graphIsBipartite(m, order) == graphIsBipartite_for(m, order, EmptyMap)

-----------------------------------------------------------------------------
(* The state machine *)

NoRet == [op |-> "none", args |-> <<>>, val |-> <<>>]

Called(op, args, val) == [op |-> op, args |-> args, val |-> val]

\* The object after a mutator returned g.
Becomes(g) ==
    /\ atoms' = g.atoms
    /\ bonds' = g.bonds
    /\ adjacency' = g.adjacency
    /\ graph' = graph

\* a query that looks its first argument up with adjacency[...], which
\* creates the entry of a key the map does not hold
Returns_insertsKey(op, args, val) ==
    /\ ret' = Called(op, args, val)
    /\ adjacency' = IF args # <<>> /\ args[1] \notin DOMAIN adjacency
                    THEN MapPut(adjacency, args[1], <<>>)
                    ELSE adjacency
    /\ UNCHANGED <<atoms, bonds, graph>>

\* A const member function returns val: the object is left as it is.
Returns(op, args, val) ==
    /\ ret' = Called(op, args, val)
    /\ UNCHANGED <<atoms, bonds, adjacency, graph>>

Init ==
    /\ atoms = {}
    /\ bonds = <<>>
    /\ adjacency = EmptyMap
    /\ ret = NoRet
    /\ graph = EmptyMap

AddAtom ==
    \E atom \in Nodes :
        /\ Becomes(addAtom(Molecule, atom))
        /\ ret' = Called("addAtom", <<atom>>, <<>>)

AddBond ==
    \E from \in Nodes, to \in Nodes, type \in BondType :
        /\ Len(addBond(Molecule, from, to, type).bonds) <= MaxBonds
        /\ Becomes(addBond(Molecule, from, to, type))
        /\ ret' = Called("addBond", <<from, to, type>>, <<>>)

Clear ==
    /\ Becomes(clear(Molecule))
    /\ ret' = Called("clear", <<>>, <<>>)

Neighbors ==
    \E atom \in Nodes :
        /\ ret' = Called("neighbors", <<atom>>, neighbors(Molecule, atom))
        /\ UNCHANGED <<atoms, bonds, adjacency, graph>>

Bfs ==
    \E start \in Nodes :
        /\ ret' = Called("bfs", <<start>>, bfs(Molecule, start))
        /\ UNCHANGED <<atoms, bonds, adjacency, graph>>

Dfs ==
    \E start \in Nodes :
        /\ ret' = Called("dfs", <<start>>, dfs(Molecule, start))
        /\ UNCHANGED <<atoms, bonds, adjacency, graph>>

HasPath ==
    \E from \in Nodes, to \in Nodes :
        /\ ret' = Called("hasPath", <<from, to>>, hasPath(Molecule, from, to))
        /\ UNCHANGED <<atoms, bonds, adjacency, graph>>

IsConnected ==
    \E order \in Orders(atoms) :
        /\ ret' = Called("isConnected", order, isConnected(Molecule, order))
        /\ UNCHANGED <<atoms, bonds, adjacency, graph>>

HasCycle ==
    \E order \in Orders(atoms) :
        /\ ret' = Called("hasCycle", order, hasCycle(Molecule, order))
        /\ UNCHANGED <<atoms, bonds, adjacency, graph>>

Next ==
    \/ AddAtom
    \/ AddBond
    \/ Clear
    \/ Neighbors
    \/ Bfs
    \/ Dfs
    \/ HasPath
    \/ IsConnected
    \/ HasCycle

Spec == Init /\ [][Next]_vars

-----------------------------------------------------------------------------
(* Every member function of Molecule, called on graphs of up to two atoms.  *)

MaxQueryNode == 1
MaxQueryBonds == 2

QueryNodes == 0..MaxQueryNode

QueryAddAtom ==
    \E atom \in QueryNodes :
        /\ Becomes(addAtom(Molecule, atom))
        /\ ret' = Called("addAtom", <<atom>>, <<>>)

QueryAddBond ==
    \E from \in QueryNodes, to \in QueryNodes, type \in BondType :
        /\ Len(addBond(Molecule, from, to, type).bonds) <= MaxQueryBonds
        /\ Becomes(addBond(Molecule, from, to, type))
        /\ ret' = Called("addBond", <<from, to, type>>, <<>>)

QueryNeighbors ==
    \E atom \in QueryNodes :
        Returns("neighbors", <<atom>>, neighbors(Molecule, atom))

HasAtom ==
    \E atom \in QueryNodes :
        Returns("hasAtom", <<atom>>, hasAtom(Molecule, atom))

HasBond ==
    \E from \in QueryNodes, to \in QueryNodes, type \in BondType :
        Returns("hasBond", <<from, to, type>>, hasBond(Molecule, from, to, type))

GetAtoms == Returns("getAtoms", <<>>, getAtoms(Molecule))

GetBonds == Returns("getBonds", <<>>, getBonds(Molecule))

AtomCount == Returns("atomCount", <<>>, atomCount(Molecule))

BondCount == Returns("bondCount", <<>>, bondCount(Molecule))

Empty == Returns("empty", <<>>, empty(Molecule))

QueryBfs ==
    \E start \in QueryNodes :
        Returns("bfs", <<start>>, bfs(Molecule, start))

QueryDfs ==
    \E start \in QueryNodes :
        Returns("dfs", <<start>>, dfs(Molecule, start))

QueryHasPath ==
    \E from \in QueryNodes, to \in QueryNodes :
        Returns("hasPath", <<from, to>>, hasPath(Molecule, from, to))

NextQuery ==
    \/ QueryAddAtom
    \/ QueryAddBond
    \/ Clear
    \/ QueryNeighbors
    \/ HasAtom
    \/ HasBond
    \/ GetAtoms
    \/ GetBonds
    \/ AtomCount
    \/ BondCount
    \/ Empty
    \/ QueryBfs
    \/ QueryDfs
    \/ QueryHasPath
    \/ IsConnected
    \/ HasCycle

SpecQuery == Init /\ [][NextQuery]_vars

-----------------------------------------------------------------------------
(* Molecules whose bonds are all SINGLE, without self-loop and with at most  *)
(* one bond per unordered pair of atoms (the UndirectedGraph ring and path). *)

MaxRingNode == 3
MaxRingBonds == 4

RingNodes == 0..MaxRingNode

RingAddAtom ==
    \E atom \in RingNodes :
        /\ Becomes(addAtom(Molecule, atom))
        /\ ret' = Called("addAtom", <<atom>>, <<>>)

RingAddBond ==
    \E from \in RingNodes, to \in RingNodes :
        /\ from # to
        /\ \A i \in 1..Len(bonds) : {bonds[i].from, bonds[i].to} # {from, to}
        /\ Len(bonds) < MaxRingBonds
        /\ Becomes(addBond(Molecule, from, to, "SINGLE"))
        /\ ret' = Called("addBond", <<from, to, "SINGLE">>, <<>>)

NextRing ==
    \/ RingAddAtom
    \/ RingAddBond
    \/ HasCycle

SpecRing == Init /\ [][NextRing]_vars

-----------------------------------------------------------------------------
(* Calls of the graph utilities on maps a caller built.                     *)

MaxMapNode == 2
MaxDeg == 2

\* The sequences over S of length at most n.
SeqUpTo(S, n) == UNION {[1..k -> S] : k \in 0..n}

\* Every map with keys among 0..MaxMapNode whose neighbour lists have at most
\* MaxDeg elements of 0..MaxMapNode: repeated neighbours, self-loops and
\* neighbours that are no key included.
SmallMaps ==
    UNION {[K -> SeqUpTo(0..MaxMapNode, MaxDeg)] : K \in SUBSET (0..MaxMapNode)}

\* The CHANGELOG's g = {"A": ["B","C"], "B": ["D"], "C": ["D"], "D": []},
\* with A, B, C, D as 0, 1, 2, 3.
DocumentedGraph == (0 :> <<1, 2>> @@ 1 :> <<3>> @@ 2 :> <<3>> @@ 3 :> <<>>)

\* The chain of the nodes a and b: its link listed from a, from b, or both ways.
ChainMaps(a, b) ==
    { (a :> <<b>> @@ b :> <<>>), (a :> <<>> @@ b :> <<a>>), (a :> <<b>> @@ b :> <<a>>) }

\* The maps that consist of two disjoint two-node chains over 0..3.
TwoChainMaps ==
    UNION { {c1 @@ c2 : c1 \in ChainMaps(0, p[1]), c2 \in ChainMaps(p[2], p[3])} :
            p \in {<<1, 2, 3>>, <<2, 1, 3>>, <<3, 1, 2>>} }

\* The nodes the calls are made with: one more than the small maps can hold.
MapNodes == 0..(MaxMapNode + 1)

InitMap ==
    /\ atoms = {}
    /\ bonds = <<>>
    /\ adjacency = EmptyMap
    /\ ret = NoRet
    /\ graph \in SmallMaps \cup {DocumentedGraph} \cup TwoChainMaps

GraphHasPath ==
    \E start \in MapNodes, end \in MapNodes :
        /\ ret' = Called("graphHasPath", <<start, end>>, graphHasPath(graph, start, end))
        /\ UNCHANGED <<atoms, bonds, adjacency, graph>>

GraphShortestPath ==
    \E start \in MapNodes, end \in MapNodes :
        /\ ret' = Called("graphShortestPath", <<start, end>>,
                         graphShortestPath(graph, start, end))
        /\ UNCHANGED <<atoms, bonds, adjacency, graph>>

GraphCountComponents ==
    \E order \in Orders(DOMAIN graph) :
        /\ ret' = Called("graphCountComponents", order, graphCountComponents(graph, order))
        /\ UNCHANGED <<atoms, bonds, adjacency, graph>>

GraphIsBipartite ==
    \E order \in Orders(DOMAIN graph) :
        /\ ret' = Called("graphIsBipartite", order, graphIsBipartite(graph, order))
        /\ UNCHANGED <<atoms, bonds, adjacency, graph>>

NextMap ==
    \/ GraphHasPath
    \/ GraphShortestPath
    \/ GraphCountComponents
    \/ GraphIsBipartite

SpecMap == InitMap /\ [][NextMap]_vars

-----------------------------------------------------------------------------
(* Calls of the graph utilities on symmetric maps: undirected graphs.       *)

MaxSymNode == 3

\* The undirected links over the nodes K, a self-loop being {u}.
SymLinks(K) == {{u, v} : u \in K, v \in K}

\* The map of the undirected graph (K, E): the neighbours of a key listed in
\* ascending order when asc, in descending order otherwise.
SymMapOf(K, E, asc) ==
    [u \in K |-> LET l == SortedSeq({v \in K : {u, v} \in E})
                 IN  IF asc THEN l ELSE reverse(l)]

\* The symmetric maps over 0..MaxSymNode whose neighbours are all keys.
SymMaps ==
    UNION { {SymMapOf(K, E, asc) : E \in SUBSET SymLinks(K), asc \in BOOLEAN} :
            K \in SUBSET (0..MaxSymNode) }

InitSym ==
    /\ atoms = {}
    /\ bonds = <<>>
    /\ adjacency = EmptyMap
    /\ ret = NoRet
    /\ graph \in SymMaps

NextSym ==
    \/ GraphCountComponents
    \/ GraphIsBipartite

SpecSym == InitSym /\ [][NextSym]_vars

-----------------------------------------------------------------------------
(* The traversals and analyses run one loop iteration at a time.  While a   *)
(* call runs, ret.op is "run", ret.args is the function's name followed by  *)
(* its arguments and ret.val holds its local variables; the recursion of    *)
(* dfsHelper and hasCycleHelper is the sequence `stack` of their            *)
(* activations, the innermost last.  Nothing else happens while a call runs.*)

MaxRunNode == 2
MaxRunCalls == 2
MaxRunKey == 1
MaxRunDeg == 2

RunNodes == 0..MaxRunNode

\* The calls of addAtom and addBond a graph is built with.
RunCalls ==
    {[op |-> "addAtom", from |-> n, to |-> n, type |-> "SINGLE"] : n \in RunNodes}
        \cup [op : {"addBond"}, from : RunNodes, to : RunNodes, type : BondType]

RECURSIVE Build(_)
\* The graph after the calls cs, made in this order on a new Molecule.
Build(cs) ==
    IF cs = <<>>
    THEN [atoms |-> {}, bonds |-> <<>>, adjacency |-> EmptyMap]
    ELSE LET g == Build(SubSeq(cs, 1, Len(cs) - 1))
             c == cs[Len(cs)]
         IN  IF c.op = "addAtom"
             THEN addAtom(g, c.from)
             ELSE addBond(g, c.from, c.to, c.type)

\* The maps with keys among 0..MaxRunKey whose neighbour lists have at most
\* MaxRunDeg elements of 0..MaxRunNode.
RunMaps ==
    UNION {[K -> SeqUpTo(RunNodes, MaxRunDeg)] : K \in SUBSET (0..MaxRunKey)}

\* Either a graph built by up to MaxRunCalls calls, or a map a caller built.
InitRun ==
    /\ ret = NoRet
    /\ \/ /\ \E cs \in SeqUpTo(RunCalls, MaxRunCalls) :
                /\ atoms = Build(cs).atoms
                /\ bonds = Build(cs).bonds
                /\ adjacency = Build(cs).adjacency
          /\ graph = EmptyMap
       \/ /\ atoms = {}
          /\ bonds = <<>>
          /\ adjacency = EmptyMap
          /\ graph \in RunMaps

\* No call is running.
Idle == ret.op # "run"

\* The call of f is running.
IsRunning(f) == ret.op = "run" /\ ret.args[1] = f

\* The arguments of the running call.
RunArgs == Tail(ret.args)

\* The call of f with the arguments args goes on with the local variables locals.
Runs(f, args, locals) ==
    /\ ret' = [op |-> "run", args |-> <<f>> \o args, val |-> locals]
    /\ UNCHANGED <<atoms, bonds, adjacency, graph>>

\* One iteration of bfs's while loop on the local variables l.
bfs_body(g, l) ==
    LET current == Head(l.queue)
        st == bfs_for(neighbors(g, current), l.visited, Tail(l.queue))
    IN  [queue |-> st.queue, visited |-> st.visited, result |-> Append(l.result, current)]

CallBfs ==
    \E start \in RunNodes :
        /\ Idle
        /\ IF ~hasAtom(Molecule, start)
           THEN Returns("bfs", <<start>>, <<>>)
           ELSE Runs("bfs", <<start>>,
                     [queue |-> <<start>>, visited |-> {start}, result |-> <<>>])

StepBfs ==
    /\ IsRunning("bfs")
    /\ IF ret.val.queue = <<>>
       THEN Returns("bfs", RunArgs, ret.val.result)
       ELSE Runs("bfs", RunArgs, bfs_body(Molecule, ret.val))

CallIsConnected ==
    \E order \in Orders(atoms) :
        /\ Idle
        /\ IF atoms = {}
           THEN Returns("isConnected", order, TRUE)
           ELSE Runs("isConnected", order,
                     [queue |-> <<order[1]>>, visited |-> {order[1]}, result |-> <<>>])

StepIsConnected ==
    /\ IsRunning("isConnected")
    /\ IF ret.val.queue = <<>>
       THEN Returns("isConnected", RunArgs, Len(ret.val.result) = Cardinality(atoms))
       ELSE Runs("isConnected", RunArgs, bfs_body(Molecule, ret.val))

\* An activation of dfsHelper or hasCycleHelper for node: its copy neighs of
\* the adjacency list, of which the elements not yet looked at are kept.
Activation(g, node) == [node |-> node, neighs |-> neighbors(g, node)]

\* One step of the innermost activation of dfsHelper: it returns when its
\* loop is over, and calls dfsHelper for a neighbour that is not visited.
dfsHelper_step(g, l) ==
    LET n == Len(l.stack)
        top == l.stack[n]
    IN  IF top.neighs = <<>>
        THEN [l EXCEPT !.stack = SubSeq(@, 1, n - 1)]
        ELSE LET neighbor == Head(top.neighs)
                 rest == [l.stack EXCEPT ![n].neighs = Tail(@)]
             IN  IF neighbor \notin l.visited
                 THEN [stack |-> Append(rest, Activation(g, neighbor)),
                       visited |-> l.visited \cup {neighbor},
                       result |-> Append(l.result, neighbor)]
                 ELSE [l EXCEPT !.stack = rest]

CallDfs ==
    \E start \in RunNodes :
        /\ Idle
        /\ IF ~hasAtom(Molecule, start)
           THEN Returns("dfs", <<start>>, <<>>)
           ELSE Runs("dfs", <<start>>,
                     [stack |-> <<Activation(Molecule, start)>>,
                      visited |-> {start},
                      result |-> <<start>>])

StepDfs ==
    /\ IsRunning("dfs")
    /\ IF ret.val.stack = <<>>
       THEN Returns("dfs", RunArgs, ret.val.result)
       ELSE Runs("dfs", RunArgs, dfsHelper_step(Molecule, ret.val))

\* hasPath's loop body that enqueues every neighbour, visited or not
hasPath_body_noVisitedCheck(g, l) ==
    [queue |-> Tail(l.queue) \o neighbors(g, Head(l.queue)),
     visited |-> l.visited \cup Range(neighbors(g, Head(l.queue)))]

\* One iteration of hasPath's while loop, for a current node other than `to`.
hasPath_body(g, l) ==
    LET st == hasPath_for(neighbors(g, Head(l.queue)), l.visited, Tail(l.queue))
    IN  [queue |-> st.queue, visited |-> st.visited]

CallHasPath ==
    \E from \in RunNodes, to \in RunNodes :
        /\ Idle
        /\ IF ~hasAtom(Molecule, from) \/ ~hasAtom(Molecule, to)
           THEN Returns("hasPath", <<from, to>>, FALSE)
           ELSE IF from = to
                THEN Returns("hasPath", <<from, to>>, TRUE)
                ELSE Runs("hasPath", <<from, to>>, [queue |-> <<from>>, visited |-> {from}])

StepHasPath ==
    /\ IsRunning("hasPath")
    /\ IF ret.val.queue = <<>>
       THEN Returns("hasPath", RunArgs, FALSE)
       ELSE IF Head(ret.val.queue) = RunArgs[2]
            THEN Returns("hasPath", RunArgs, TRUE)
            ELSE Runs("hasPath", RunArgs, hasPath_body(Molecule, ret.val))

\* One step of hasCycle: of its loop over the atoms when no hasCycleHelper is
\* active, of the innermost activation of hasCycleHelper otherwise.  `found`
\* is set when an activation returns true, which every caller passes on.
hasCycle_step(g, l) ==
    IF l.stack = <<>>
    THEN LET atom == Head(l.order)
         IN  IF atom \notin l.visited
             THEN [l EXCEPT !.order = Tail(@),
                            !.stack = <<Activation(g, atom)>>,
                            !.visited = @ \cup {atom},
                            !.parent = MapPut(@, atom, DefaultT)]
             ELSE [l EXCEPT !.order = Tail(@)]
    ELSE LET n == Len(l.stack)
             top == l.stack[n]
         IN  IF top.neighs = <<>>
             THEN [l EXCEPT !.stack = SubSeq(@, 1, n - 1)]
             ELSE LET neighbor == Head(top.neighs)
                      rest == [l.stack EXCEPT ![n].neighs = Tail(@)]
                  IN  IF neighbor \notin l.visited
                      THEN [l EXCEPT !.stack = Append(rest, Activation(g, neighbor)),
                                     !.visited = @ \cup {neighbor},
                                     !.parent = MapPut(@, neighbor, top.node)]
                      ELSE IF neighbor # l.parent[top.node]
                           THEN [l EXCEPT !.found = TRUE]
                           ELSE [l EXCEPT !.stack = rest]

CallHasCycle ==
    \E order \in Orders(atoms) :
        /\ Idle
        /\ Runs("hasCycle", order,
                [order |-> order, stack |-> <<>>, visited |-> {},
                 parent |-> EmptyMap, found |-> FALSE])

StepHasCycle ==
    /\ IsRunning("hasCycle")
    /\ IF ret.val.found
       THEN Returns("hasCycle", RunArgs, TRUE)
       ELSE IF ret.val.stack = <<>> /\ ret.val.order = <<>>
            THEN Returns("hasCycle", RunArgs, FALSE)
            ELSE Runs("hasCycle", RunArgs, hasCycle_step(Molecule, ret.val))

CallGraphHasPath ==
    \E start \in RunNodes, end \in RunNodes :
        /\ Idle
        /\ IF start \notin DOMAIN graph
           THEN Returns("graphHasPath", <<start, end>>, FALSE)
           ELSE IF start = end
                THEN Returns("graphHasPath", <<start, end>>, TRUE)
                ELSE Runs("graphHasPath", <<start, end>>,
                          [queue |-> <<start>>, visited |-> {start}])

StepGraphHasPath ==
    /\ IsRunning("graphHasPath")
    /\ IF ret.val.queue = <<>>
       THEN Returns("graphHasPath", RunArgs, FALSE)
       ELSE LET current == Head(ret.val.queue)
            IN  IF current \in DOMAIN graph
                THEN LET st == graphHasPath_for(graph[current], RunArgs[2],
                                                ret.val.visited, Tail(ret.val.queue))
                     IN  IF st.found
                         THEN Returns("graphHasPath", RunArgs, TRUE)
                         ELSE Runs("graphHasPath", RunArgs,
                                   [queue |-> st.queue, visited |-> st.visited])
                ELSE Runs("graphHasPath", RunArgs,
                          [ret.val EXCEPT !.queue = Tail(@)])

\* One iteration of graphShortestPath's while loop for a current node other
\* than end, or one iteration of the loop that walks the parents back.
graphShortestPath_step(m, start, l) ==
    IF l.walking
    THEN [l EXCEPT !.path = Append(@, l.node), !.node = l.parent[l.node]]
    ELSE LET current == Head(l.queue)
         IN  IF current \in DOMAIN m
             THEN LET st == graphShortestPath_for(m[current], current, l.visited,
                                                  l.parent, Tail(l.queue))
                  IN  [l EXCEPT !.queue = st.queue,
                                !.visited = st.visited,
                                !.parent = st.parent]
             ELSE [l EXCEPT !.queue = Tail(@)]

CallGraphShortestPath ==
    \E start \in RunNodes, end \in RunNodes :
        /\ Idle
        /\ IF start \notin DOMAIN graph
           THEN Returns("graphShortestPath", <<start, end>>, <<>>)
           ELSE Runs("graphShortestPath", <<start, end>>,
                     [queue |-> <<start>>, visited |-> {start},
                      parent |-> MapPut(EmptyMap, start, start),
                      walking |-> FALSE, node |-> end, path |-> <<>>])

StepGraphShortestPath ==
    /\ IsRunning("graphShortestPath")
    /\ LET l == ret.val
           start == RunArgs[1]
           end == RunArgs[2]
       IN  IF l.walking
           THEN IF l.node # start
                THEN Runs("graphShortestPath", RunArgs, graphShortestPath_step(graph, start, l))
                ELSE Returns("graphShortestPath", RunArgs, reverse(Append(l.path, start)))
           ELSE IF l.queue = <<>>
                THEN Returns("graphShortestPath", RunArgs, <<>>)
                ELSE IF Head(l.queue) = end
                     THEN Runs("graphShortestPath", RunArgs, [l EXCEPT !.walking = TRUE])
                     ELSE Runs("graphShortestPath", RunArgs,
                               graphShortestPath_step(graph, start, l))

\* One step of graphCountComponents: an iteration of the inner while loop
\* when the queue holds a node, of the loop over the keys otherwise.
graphCountComponents_step(m, l) ==
    IF l.queue # <<>>
    THEN LET current == Head(l.queue)
         IN  IF current \in DOMAIN m
             THEN LET st == graphCountComponents_bfsFor(m[current], l.visited, Tail(l.queue))
                  IN  [l EXCEPT !.queue = st.queue, !.visited = st.visited]
             ELSE [l EXCEPT !.queue = Tail(@)]
    ELSE LET vertex == Head(l.order)
         IN  IF vertex \notin l.visited
             THEN [order |-> Tail(l.order), queue |-> <<vertex>>,
                   visited |-> l.visited \cup {vertex}, count |-> l.count + 1]
             ELSE [l EXCEPT !.order = Tail(@)]

CallGraphCountComponents ==
    \E order \in Orders(DOMAIN graph) :
        /\ Idle
        /\ Runs("graphCountComponents", order,
                [order |-> order, queue |-> <<>>, visited |-> {}, count |-> 0])

StepGraphCountComponents ==
    /\ IsRunning("graphCountComponents")
    /\ IF ret.val.queue = <<>> /\ ret.val.order = <<>>
       THEN Returns("graphCountComponents", RunArgs, ret.val.count)
       ELSE Runs("graphCountComponents", RunArgs, graphCountComponents_step(graph, ret.val))

\* One step of graphIsBipartite: an iteration of the inner while loop when
\* the queue holds a node, of the loop over the keys otherwise.  `ok` is
\* cleared by the return false of the inner loop.
graphIsBipartite_step(m, l) ==
    IF l.queue # <<>>
    THEN LET current == Head(l.queue)
         IN  IF current \in DOMAIN m
             THEN LET st == graphIsBipartite_bfsFor(m[current], current, l.color,
                                                    Tail(l.queue))
                  IN  [l EXCEPT !.queue = st.queue, !.color = st.color, !.ok = st.ok]
             ELSE [l EXCEPT !.queue = Tail(@)]
    ELSE LET vertex == Head(l.order)
         IN  IF vertex \notin DOMAIN l.color
             THEN [l EXCEPT !.order = Tail(@),
                            !.queue = <<vertex>>,
                            !.color = MapPut(@, vertex, 0)]
             ELSE [l EXCEPT !.order = Tail(@)]

CallGraphIsBipartite ==
    \E order \in Orders(DOMAIN graph) :
        /\ Idle
        /\ Runs("graphIsBipartite", order,
                [order |-> order, queue |-> <<>>, color |-> EmptyMap, ok |-> TRUE])

StepGraphIsBipartite ==
    /\ IsRunning("graphIsBipartite")
    /\ IF ~ret.val.ok
       THEN Returns("graphIsBipartite", RunArgs, FALSE)
       ELSE IF ret.val.queue = <<>> /\ ret.val.order = <<>>
            THEN Returns("graphIsBipartite", RunArgs, TRUE)
            ELSE Runs("graphIsBipartite", RunArgs, graphIsBipartite_step(graph, ret.val))

\* A call is made.
CallRun ==
    \/ CallBfs
    \/ CallDfs
    \/ CallHasPath
    \/ CallIsConnected
    \/ CallHasCycle
    \/ CallGraphHasPath
    \/ CallGraphShortestPath
    \/ CallGraphCountComponents
    \/ CallGraphIsBipartite

\* The running call takes its next step.
StepRun ==
    \/ StepBfs
    \/ StepDfs
    \/ StepHasPath
    \/ StepIsConnected
    \/ StepHasCycle
    \/ StepGraphHasPath
    \/ StepGraphShortestPath
    \/ StepGraphCountComponents
    \/ StepGraphIsBipartite

NextRun == CallRun \/ StepRun

\* A call that runs goes on running: the program is one thread that nothing
\* suspends.
SpecRun == InitRun /\ [][NextRun]_vars /\ WF_vars(StepRun)

-----------------------------------------------------------------------------
(* Definitions the properties are stated with *)

RECURSIVE AdjacencyOf(_, _)
\* The adjacency list of n as a scan of the bond list bs in insertion order.
AdjacencyOf(bs, n) ==
    IF bs = <<>>
    THEN <<>>
    ELSE LET b == Head(bs)
             fwd == IF b.from = n THEN <<b.to>> ELSE <<>>
             rev == IF b.to = n /\ b.type \in {"SINGLE", "DOUBLE", "BIDIRECTIONAL"}
                    THEN <<b.from>>
                    ELSE <<>>
         IN  fwd \o rev \o AdjacencyOf(Tail(bs), n)

RECURSIVE ReachClosure(_, _)
\* The least set that contains S and is closed under adjacency steps of g.
ReachClosure(g, S) ==
    LET T == S \cup UNION {Range(neighbors(g, n)) : n \in S}
    IN  IF T = S THEN S ELSE ReachClosure(g, T)

\* The nodes reachable from s by zero or more adjacency steps.
Reachable(g, s) == ReachClosure(g, {s})

\* s is a prefix of t.
IsPrefix(s, t) == Len(s) <= Len(t) /\ \A i \in 1..Len(s) : s[i] = t[i]

NoRepeat(s) == \A i, j \in 1..Len(s) : i # j => s[i] # s[j]

\* The undirected links underlying the bond list bs, a self-loop being {n}.
Links(bs) == {{bs[i].from, bs[i].to} : i \in 1..Len(bs)}

RECURSIVE LinkClosure(_, _)
\* The least set that contains S and is closed under the links L.
LinkClosure(L, S) ==
    LET T == S \cup UNION {l \in L : l \cap S # {}}
    IN  IF T = S THEN S ELSE LinkClosure(L, T)

\* The simple undirected graph underlying bs is a forest: it has no self-loop,
\* and removing a link disconnects its two ends.
IsForest(bs) ==
    \A l \in Links(bs) :
        /\ Cardinality(l) = 2
        /\ \E a \in l : (l \ {a}) \cap LinkClosure(Links(bs) \ {l}, {a}) = {}

\* One step along the map m from the nodes S: only a key has successors.
MapStep(m, S) == S \cup UNION {Range(m[u]) : u \in S \cap DOMAIN m}

RECURSIVE MapClosure(_, _)
MapClosure(m, S) ==
    IF MapStep(m, S) = S THEN S ELSE MapClosure(m, MapStep(m, S))

\* The nodes reachable from start along the map m.
MapReachable(m, start) == MapClosure(m, {start})

RECURSIVE MinSteps(_, _, _)
\* The least number of steps along m that lead from the set S to end,
\* for an end that is reachable from S.
MinSteps(m, S, end) ==
    IF end \in S THEN 0 ELSE 1 + MinSteps(m, MapStep(m, S), end)

\* path leads along the map m: each element is a successor of the one before.
IsMapPath(m, path) ==
    \A i \in 1..(Len(path) - 1) :
        path[i] \in DOMAIN m /\ path[i + 1] \in Range(m[path[i]])

\* What a caller reads through the value the call r returned, when the atoms
\* are a and the bond list is b: a reference reads the member it refers to,
\* a vector returned by value reads as it was returned.
Content(r, a, b) ==
    IF r.op = "getAtoms"
    THEN a
    ELSE IF r.op = "getBonds"
         THEN b
         ELSE r.val

\* The number of connected components of the undirected graph of a symmetric
\* map m whose neighbours are keys.
NumComponents(m) == Cardinality({MapReachable(m, u) : u \in DOMAIN m})

\* A call that was run step by step has returned what the function returns.
StepsAgreeWithOperators ==
    /\ ret.op = "bfs" => ret.val = bfs(Molecule, ret.args[1])
    /\ ret.op = "dfs" => ret.val = dfs(Molecule, ret.args[1])
    /\ ret.op = "hasPath" => ret.val = hasPath(Molecule, ret.args[1], ret.args[2])
    /\ ret.op = "isConnected" => ret.val = isConnected(Molecule, ret.args)
    /\ ret.op = "hasCycle" => ret.val = hasCycle(Molecule, ret.args)
    /\ ret.op = "graphHasPath" => ret.val = graphHasPath(graph, ret.args[1], ret.args[2])
    /\ ret.op = "graphShortestPath"
           => ret.val = graphShortestPath(graph, ret.args[1], ret.args[2])
    /\ ret.op = "graphCountComponents" => ret.val = graphCountComponents(graph, ret.args)
    /\ ret.op = "graphIsBipartite" => ret.val = graphIsBipartite(graph, ret.args)

\* The map m is symmetric and every neighbour is a key.
IsSymmetricMap(m) ==
    \A u \in DOMAIN m :
        \A v \in Range(m[u]) : v \in DOMAIN m /\ u \in Range(m[v])

\* The undirected graph of the map m has a 2-colouring.
TwoColourable(m) ==
    \E c \in [DOMAIN m -> {0, 1}] :
        \A u \in DOMAIN m : \A v \in Range(m[u]) : c[u] # c[v]

-----------------------------------------------------------------------------
(* Properties *)

\* C1: the adjacency mapping is the function of the bond list: for every node
\* n, adjacency[n] is the scan of the bond list in insertion order that appends
\* `to` for a bond from n and `from` for a SINGLE, DOUBLE or BIDIRECTIONAL
\* bond to n.
C1_AdjacencyIsScanOfBonds ==
    \A n \in Nodes : neighbors(Molecule, n) = AdjacencyOf(bonds, n)

\* A DOUBLE bond between two atoms and a non-ARROW self-loop are in the list.
C1_Witness ==
    /\ \E i \in 1..Len(bonds) : bonds[i].type = "DOUBLE" /\ bonds[i].from # bonds[i].to
    /\ \E i \in 1..Len(bonds) : bonds[i].type # "ARROW" /\ bonds[i].from = bonds[i].to

\* C2: b is in neighbors(a) iff the bond list holds a bond (a,b,k) of any kind
\* or a bond (b,a,k) with k other than ARROW.
C2_NeighborIffBond ==
    \A a \in Nodes, b \in Nodes :
        (b \in Range(neighbors(Molecule, a)))
            <=> \E i \in 1..Len(bonds) :
                    \/ bonds[i].from = a /\ bonds[i].to = b
                    \/ bonds[i].from = b /\ bonds[i].to = a /\ bonds[i].type # "ARROW"

\* addBond(a,b,ARROW) has just returned: b is a neighbour of a, a is none of b.
C2_Witness ==
    /\ ret.op = "addBond"
    /\ ret.args[3] = "ARROW"
    /\ ret.args[1] # ret.args[2]
    /\ ret.args[2] \in Range(neighbors(Molecule, ret.args[1]))
    /\ ret.args[1] \notin Range(neighbors(Molecule, ret.args[2]))

\* C3: addAtom of an atom the graph has and addBond of a triple the bond list
\* has change nothing; the bond list never holds two equal triples; a triple
\* the list does not hold is appended, whatever bonds join the same pair.
C3_Idempotence ==
    /\ \A n \in atoms : addAtom(Molecule, n) = Molecule
    /\ \A i \in 1..Len(bonds) :
           addBond(Molecule, bonds[i].from, bonds[i].to, bonds[i].type) = Molecule
    /\ NoRepeat(bonds)
    /\ \A f \in Nodes, t \in Nodes, k \in BondType :
           MoleculeBond(f, t, k) \notin Range(bonds)
               => addBond(Molecule, f, t, k).bonds = Append(bonds, MoleculeBond(f, t, k))

\* Two bonds of different kinds join the same ordered pair.
C3_Witness ==
    /\ ret.op = "addBond"
    /\ \E i, j \in 1..Len(bonds) :
           /\ i # j
           /\ bonds[i].from = bonds[j].from
           /\ bonds[i].to = bonds[j].to
           /\ bonds[i].type # bonds[j].type

\* C4: both endpoints of every bond are atoms, the keys of adjacency are the
\* atoms, and every element of every adjacency list is an atom.
C4_NodesCoverBondsAndAdjacency ==
    /\ \A i \in 1..Len(bonds) : bonds[i].from \in atoms /\ bonds[i].to \in atoms
    /\ DOMAIN adjacency = atoms
    /\ \A n \in DOMAIN adjacency : Range(adjacency[n]) \subseteq atoms

\* addBond inserted both endpoints of a bond, and another atom has no bond.
C4_Witness ==
    /\ ret.op = "addBond"
    /\ Len(bonds) = 1
    /\ bonds[1].from # bonds[1].to
    /\ \E n \in atoms : n \notin {bonds[1].from, bonds[1].to} /\ adjacency[n] = <<>>

\* C5: for a node a that is no atom, neighbors(a), bfs(a) and dfs(a) return the
\* empty sequence and hasPath(a,x) and hasPath(x,a) return false, and the call
\* leaves the atoms and the keys of adjacency as they were.
C5_AbsentNodeGivesEmpty ==
    [][/\ (ret'.op \in {"neighbors", "bfs", "dfs"} /\ ret'.args[1] \notin atoms)
           => /\ ret'.val = <<>>
              /\ atoms' = atoms
              /\ DOMAIN adjacency' = DOMAIN adjacency
       /\ (ret'.op = "hasPath" /\ (ret'.args[1] \notin atoms \/ ret'.args[2] \notin atoms))
           => /\ ret'.val = FALSE
              /\ atoms' = atoms
              /\ DOMAIN adjacency' = DOMAIN adjacency]_vars

\* bfs of a node that is no atom has returned, on a graph that has bonds.
C5_Witness ==
    /\ ret.op = "bfs"
    /\ ret.args[1] \notin atoms
    /\ ret.val = <<>>
    /\ bonds # <<>>

\* C6: for a start that is an atom, bfs(start) and dfs(start) each return a
\* sequence without repeats, starting with start, whose elements are the nodes
\* reachable from start; the two results are equal as sets.
C6_TraversalsVisitReachableOnce ==
    (ret.op \in {"bfs", "dfs"} /\ ret.args[1] \in atoms)
        => LET start == ret.args[1]
           IN  /\ NoRepeat(ret.val)
               /\ Range(ret.val) = Reachable(Molecule, start)
               /\ ret.val[1] = start
               /\ Range(bfs(Molecule, start)) = Range(dfs(Molecule, start))

\* bfs has returned three nodes, the last of them no neighbour of the start.
C6_Witness ==
    /\ ret.op = "bfs"
    /\ Len(ret.val) = 3
    /\ ret.val[3] \notin Range(neighbors(Molecule, ret.args[1]))

\* C7: hasPath(from,to) is true iff both are atoms and to is reachable from
\* from by zero or more adjacency steps, i.e. iff to is an element of bfs(from).
C7_HasPathIffReachable ==
    ret.op = "hasPath"
        => LET from == ret.args[1]
               to == ret.args[2]
           IN  /\ ret.val = (/\ from \in atoms
                             /\ to \in atoms
                             /\ to \in Reachable(Molecule, from))
               /\ (from \in atoms /\ to \in atoms)
                      => ret.val = (to \in Range(bfs(Molecule, from)))
               /\ (from \in atoms /\ from = to) => ret.val = TRUE

\* hasPath has returned true for a node that is two steps away.
C7_Witness ==
    /\ ret.op = "hasPath"
    /\ ret.val = TRUE
    /\ ret.args[1] # ret.args[2]
    /\ ret.args[2] \notin Range(neighbors(Molecule, ret.args[1]))

\* C8: isConnected() depends on the graph alone: every iteration order of the
\* atoms, hence every choice of the starting node, gives the result returned.
C8_IsConnectedSameForEveryStart ==
    ret.op = "isConnected"
        => \A order \in Orders(atoms) : isConnected(Molecule, order) = ret.val

\* C9: on a graph whose bond list holds a self-loop, of any kind and on any
\* node value, hasCycle() returns true.
C9_SelfLoopIsCycle ==
    (ret.op = "hasCycle" /\ \E i \in 1..Len(bonds) : bonds[i].from = bonds[i].to)
        => ret.val = TRUE

\* C10: when the simple undirected graph underlying the bond list is a forest,
\* hasCycle() returns false, for every iteration order of the atoms.
C10_ForestHasNoCycle ==
    (ret.op = "hasCycle" /\ IsForest(bonds)) => ret.val = FALSE

\* C11: on a graph whose bonds are all SINGLE, without self-loop and with at
\* most one bond per unordered pair, hasCycle() returns true iff the bonds
\* contain a cycle, for every iteration order of the atoms and every node value.
C11_SimpleSingleCycleExact ==
    (/\ ret.op = "hasCycle"
     /\ \A i \in 1..Len(bonds) : bonds[i].type = "SINGLE" /\ bonds[i].from # bonds[i].to
     /\ \A i, j \in 1..Len(bonds) :
            i # j => {bonds[i].from, bonds[i].to} # {bonds[j].from, bonds[j].to})
        => ret.val = ~IsForest(bonds)

\* hasCycle() has returned true on a ring of four atoms.
C11_Witness ==
    /\ ret.op = "hasCycle"
    /\ ret.val = TRUE
    /\ Cardinality(atoms) = 4
    /\ Len(bonds) = 4
    /\ \A n \in atoms : Cardinality(Range(adjacency[n])) = 2

\* C12: for a start that is a key and an end reachable from it,
\* graphShortestPath returns a path from start to end along the map whose
\* length is minimal; for the documented map it returns [A,B,D] from A to D.
C12_ShortestPathIsShortest ==
    (/\ ret.op = "graphShortestPath"
     /\ ret.args[1] \in DOMAIN graph
     /\ ret.args[2] \in MapReachable(graph, ret.args[1]))
        => /\ Len(ret.val) >= 1
           /\ ret.val[1] = ret.args[1]
           /\ ret.val[Len(ret.val)] = ret.args[2]
           /\ IsMapPath(graph, ret.val)
           /\ Len(ret.val) = MinSteps(graph, {ret.args[1]}, ret.args[2]) + 1
           /\ (graph = DocumentedGraph /\ ret.args = <<0, 3>>) => ret.val = <<0, 1, 3>>

\* graphShortestPath has returned [A,B,D] for the documented map, A and D.
C12_Witness ==
    /\ ret.op = "graphShortestPath"
    /\ graph = DocumentedGraph
    /\ ret.args = <<0, 3>>
    /\ ret.val = <<0, 1, 3>>

\* C13 as stated: graphShortestPath returns the empty sequence if start is
\* no key or end is not reachable, and [start] if start = end.
C13_EmptyOrSingleAsStated ==
    ret.op = "graphShortestPath"
        => /\ (\/ ret.args[1] \notin DOMAIN graph
               \/ ret.args[2] \notin MapReachable(graph, ret.args[1]))
                  => ret.val = <<>>
           /\ ret.args[1] = ret.args[2] => ret.val = <<ret.args[1]>>

\* C13, amended: graphShortestPath returns the empty sequence if start is no
\* key or end is not reachable, and [start] if start = end is a key.
C13_EmptyOrSingle ==
    ret.op = "graphShortestPath"
        => /\ (\/ ret.args[1] \notin DOMAIN graph
               \/ ret.args[2] \notin MapReachable(graph, ret.args[1]))
                  => ret.val = <<>>
           /\ (ret.args[1] = ret.args[2] /\ ret.args[1] \in DOMAIN graph)
                  => ret.val = <<ret.args[1]>>

\* graphShortestPath has returned empty for start = end, no key of a map
\* that has keys.
C13_Witness ==
    /\ ret.op = "graphShortestPath"
    /\ ret.args[1] = ret.args[2]
    /\ ret.args[1] \notin DOMAIN graph
    /\ DOMAIN graph # {}
    /\ ret.val = <<>>

\* C14: graphCountComponents returns 2 on every map of two disjoint two-node
\* chains, for every iteration order of the keys, the link of a chain being
\* listed in one direction or in both.
C14_TwoChainsCountTwo ==
    (ret.op = "graphCountComponents" /\ graph \in TwoChainMaps) => ret.val = 2

\* C15: graphCountComponents returns 1 on the documented map, for every
\* iteration order of the keys.
C15_DocumentedGraphOneComponent ==
    (ret.op = "graphCountComponents" /\ graph = DocumentedGraph) => ret.val = 1

\* C16: graphIsBipartite returns true on the documented map, for every
\* iteration order of the keys.
C16_DocumentedGraphBipartite ==
    (ret.op = "graphIsBipartite" /\ graph = DocumentedGraph) => ret.val = TRUE

\* C17: on a symmetric map whose neighbours are all keys, graphIsBipartite
\* returns true iff the undirected graph has a 2-colouring, for every iteration
\* order of the keys.
C17_BipartiteIffTwoColourable ==
    (ret.op = "graphIsBipartite" /\ IsSymmetricMap(graph))
        => ret.val = TwoColourable(graph)

\* graphIsBipartite has returned false on a map without self-loop whose odd
\* cycle is not in the component of the first key iterated.
C17_Witness ==
    /\ ret.op = "graphIsBipartite"
    /\ ret.val = FALSE
    /\ IsSymmetricMap(graph)
    /\ \A u \in DOMAIN graph : u \notin Range(graph[u])
    /\ graph[ret.args[1]] = <<>>

\* C18: appending to M[k] a node that is no key of M leaves
\* graphCountComponents(M) unchanged, and the result is at most the number of
\* keys.
C18_NonKeyTargetsNotCounted ==
    ret.op = "graphCountComponents"
        => /\ ret.val <= Cardinality(DOMAIN graph)
           /\ \A k \in DOMAIN graph, v \in MapNodes \ DOMAIN graph :
                  graphCountComponents(push_back(graph, k, v), ret.args) = ret.val

\* graphCountComponents has returned on a map with two keys or more in which
\* a neighbour is no key.
C18_Witness ==
    /\ ret.op = "graphCountComponents"
    /\ ret.val >= 2
    /\ \E k \in DOMAIN graph : ~(Range(graph[k]) \subseteq DOMAIN graph)

\* C19: clear() leaves the atoms, the bonds and the adjacency map empty, the
\* state of a newly constructed graph: atomCount() = 0, bondCount() = 0 and
\* empty() is true.
C19_ClearGivesFreshGraph ==
    ret.op = "clear"
        => /\ atoms = {}
           /\ bonds = <<>>
           /\ adjacency = EmptyMap
           /\ atomCount(Molecule) = 0
           /\ bondCount(Molecule) = 0
           /\ empty(Molecule)

\* clear() has just returned.
C19_Witness ==
    /\ ret.op = "clear"
    /\ DOMAIN adjacency = {}

\* C20: every call other than clear() keeps the atoms, keeps the bond list as
\* a prefix of the new one and keeps every adjacency list as a prefix of the
\* new one.
C20_GrowsBetweenClears ==
    [][ret'.op # "clear"
        => /\ atoms \subseteq atoms'
           /\ IsPrefix(bonds, bonds')
           /\ DOMAIN adjacency \subseteq DOMAIN adjacency'
           /\ \A n \in DOMAIN adjacency : IsPrefix(adjacency[n], adjacency'[n])]_vars

\* addBond has appended to an adjacency list that had an element.
C20_Witness ==
    /\ ret.op = "addBond"
    /\ Len(bonds) = 2
    /\ \E n \in atoms : Len(adjacency[n]) >= 2 /\ adjacency[n][1] # adjacency[n][2]

\* C21: hasBond(a,b,k) is true iff addBond was called with exactly the triple
\* (a,b,k) since the last clear(): no triple is held at construction, addBond
\* adds its own triple and no other, clear() removes all and no other call
\* changes any; after addBond(a,b,SINGLE) alone with a # b, hasBond is true of
\* (a,b,SINGLE) only, although a and b are mutual neighbours.
C21_HasBondExactTriple ==
    /\ \A f \in QueryNodes, t \in QueryNodes, k \in BondType : ~hasBond(Molecule, f, t, k)
    /\ [][LET after == [atoms |-> atoms', bonds |-> bonds', adjacency |-> adjacency']
          IN  \A f \in QueryNodes, t \in QueryNodes, k \in BondType :
                  hasBond(after, f, t, k) =
                      IF ret'.op = "clear"
                      THEN FALSE
                      ELSE IF ret'.op = "addBond" /\ ret'.args = <<f, t, k>>
                           THEN TRUE
                           ELSE hasBond(Molecule, f, t, k)]_vars
    /\ [](ret.op = "hasBond"
            => /\ ret.val = (MoleculeBond(ret.args[1], ret.args[2], ret.args[3])
                                \in Range(bonds))
               /\ (/\ Len(bonds) = 1
                   /\ bonds[1].type = "SINGLE"
                   /\ bonds[1].from # bonds[1].to)
                      => /\ ret.val = (ret.args = <<bonds[1].from, bonds[1].to, "SINGLE">>)
                         /\ bonds[1].to \in Range(neighbors(Molecule, bonds[1].from))
                         /\ bonds[1].from \in Range(neighbors(Molecule, bonds[1].to)))

\* hasBond(b,a,SINGLE) has returned false after addBond(a,b,SINGLE) alone.
C21_Witness ==
    /\ ret.op = "hasBond"
    /\ ret.val = FALSE
    /\ Len(bonds) = 1
    /\ bonds[1].type = "SINGLE"
    /\ bonds[1].from # bonds[1].to
    /\ ret.args = <<bonds[1].to, bonds[1].from, "SINGLE">>

\* C22: a call of neighbors, hasAtom, hasBond, atomCount, bondCount, empty,
\* bfs, dfs, hasPath, isConnected or hasCycle, with arguments that are atoms or
\* not, leaves the atoms, the bond list and the adjacency map as they were.
C22_QueriesLeaveGraphUnchanged ==
    [][ret'.op \in {"neighbors", "hasAtom", "hasBond", "atomCount", "bondCount",
                    "empty", "bfs", "dfs", "hasPath", "isConnected", "hasCycle"}
        => /\ atoms' = atoms
           /\ bonds' = bonds
           /\ adjacency' = adjacency]_vars

\* hasPath to a node that is no atom has returned on a graph that has a bond.
C22_Witness ==
    /\ ret.op = "hasPath"
    /\ ret.args[1] \in atoms
    /\ ret.args[2] \notin atoms
    /\ ret.args[2] \notin DOMAIN adjacency
    /\ bonds # <<>>

\* C23: the value returned by neighbors, bfs, dfs, getAtoms or getBonds keeps
\* the content it had when it was returned across a following addAtom, addBond
\* or clear.
C23_QueryResultsAreSnapshots ==
    [][(/\ ret.op \in {"neighbors", "bfs", "dfs", "getAtoms", "getBonds"}
        /\ ret'.op \in {"addAtom", "addBond", "clear"})
        => Content(ret, atoms', bonds') = Content(ret, atoms, bonds)]_vars

\* C24: while dfs(start) runs, at most one activation of its helper is on the
\* call stack, whatever the length of the path being explored.
C24_DfsCallDepthConstant ==
    IsRunning("dfs") => Len(ret.val.stack) <= 1

\* C25: every call of bfs, dfs, hasPath, isConnected, hasCycle, graphHasPath,
\* graphShortestPath, graphCountComponents and graphIsBipartite that runs
\* returns, on graphs and maps with cycles, self-loops, repeated successors
\* and neighbours that are no keys.
C25_EveryCallReturns ==
    (ret.op = "run") ~> (ret.op # "run")

\* graphShortestPath has returned a path of three nodes after walking the
\* parents back, on a map in which the middle node has a self-loop, the
\* start is listed as a neighbour and the end is no key.
C25_Witness ==
    /\ ret.op = "graphShortestPath"
    /\ Len(ret.val) = 3
    /\ ret.val[2] \in Range(graph[ret.val[2]])
    /\ ret.val[1] \in Range(graph[ret.val[2]]) \cup Range(graph[ret.val[1]])
    /\ ret.val[3] \notin DOMAIN graph

\* C26: hasPath(from,to) of the graph equals graphHasPath of the graph's
\* adjacency map with the same from and to, for atoms and for nodes that are
\* no atoms.
C26_HasPathAgreesWithGraphHasPath ==
    ret.op = "hasPath"
        => /\ ret.val = graphHasPath(adjacency, ret.args[1], ret.args[2])
           /\ \A from \in Nodes, to \in Nodes :
                  hasPath(Molecule, from, to) = graphHasPath(adjacency, from, to)

\* hasPath(a,a) has returned false for a node a that is no atom of a graph
\* that has bonds.
C26_Witness ==
    /\ ret.op = "hasPath"
    /\ ret.args[1] = ret.args[2]
    /\ ret.args[1] \notin atoms
    /\ ret.val = FALSE
    /\ bonds # <<>>

\* C27: graphHasPath(map,start,end) is true iff graphShortestPath(map,start,end)
\* is not empty, for every map, start and end.
C27_HasPathIffShortestPathNonEmpty ==
    /\ ret.op = "graphHasPath"
           => ret.val = (graphShortestPath(graph, ret.args[1], ret.args[2]) # <<>>)
    /\ ret.op = "graphShortestPath"
           => (ret.val # <<>>) = graphHasPath(graph, ret.args[1], ret.args[2])

\* graphHasPath has returned true for an end that is a neighbour and no key,
\* two steps away from start.
C27_Witness ==
    /\ ret.op = "graphHasPath"
    /\ ret.val = TRUE
    /\ ret.args[2] \notin DOMAIN graph
    /\ ret.args[2] \notin Range(graph[ret.args[1]])

\* C28: every call other than clear() keeps hasPath(a,b) true for all a, b for
\* which it was true.
C28_ReachabilityMonotone ==
    [][ret'.op # "clear"
        => LET after == [atoms |-> atoms', bonds |-> bonds', adjacency |-> adjacency']
           IN  \A a \in Nodes, b \in Nodes :
                   hasPath(Molecule, a, b) => hasPath(after, a, b)]_vars

\* addBond has appended a second neighbour to the list of an atom that had a
\* path to its first neighbour.
C28_Witness ==
    /\ ret.op = "addBond"
    /\ Len(bonds) = 2
    /\ \E n \in atoms :
           /\ Len(adjacency[n]) = 2
           /\ adjacency[n][1] \notin {n, adjacency[n][2]}
           /\ hasPath(Molecule, n, adjacency[n][1])

\* C29: on a graph without ARROW bond, isConnected() is true iff hasPath(a,b)
\* is true for all atoms a, b, and hasPath(a,b) = hasPath(b,a) for all a, b.
C29_ConnectedIffAllPairsNoArrow ==
    (\A i \in 1..Len(bonds) : bonds[i].type # "ARROW")
        => /\ ret.op = "isConnected"
                  => ret.val = \A a \in atoms, b \in atoms : hasPath(Molecule, a, b)
           /\ \A a \in Nodes, b \in Nodes :
                  hasPath(Molecule, a, b) = hasPath(Molecule, b, a)

\* isConnected() has returned true on three atoms joined in a path by two
\* bonds, none of them ARROW.
C29_Witness ==
    /\ ret.op = "isConnected"
    /\ ret.val = TRUE
    /\ Cardinality(atoms) = 3
    /\ Len(bonds) = 2
    /\ \A i \in 1..Len(bonds) : bonds[i].type # "ARROW"
    /\ Len(adjacency[ret.args[1]]) = 1

\* C30: on a symmetric map whose neighbours are all keys, graphCountComponents
\* returns the number of connected components of the undirected graph, for
\* every iteration order of the keys: 0 for the empty map, 1 per isolated key.
C30_CountIsNumberOfComponents ==
    (ret.op = "graphCountComponents" /\ IsSymmetricMap(graph))
        => /\ ret.val = NumComponents(graph)
           /\ graph = EmptyMap => ret.val = 0
           /\ (\A u \in DOMAIN graph : graph[u] = <<>>)
                  => ret.val = Cardinality(DOMAIN graph)

\* graphCountComponents has returned 2 on four keys: an isolated key and a
\* path of three, iterated from an end of the path.
C30_Witness ==
    /\ ret.op = "graphCountComponents"
    /\ ret.val = 2
    /\ IsSymmetricMap(graph)
    /\ Cardinality(DOMAIN graph) = 4
    /\ \E u \in DOMAIN graph : graph[u] = <<>>
    /\ \E u \in DOMAIN graph : Len(graph[u]) = 2 /\ u \notin Range(graph[u])
    /\ Len(graph[ret.args[1]]) = 1

====
